---- MODULE Spec2Model ----
(***************************************************************************)
(* Model of cube_to_equirect.py: discovery of cube-face sets, the size     *)
(* guard, title resolution, filename sanitising, the per-set loop of main  *)
(* and the final cleanup.                                                  *)
(*                                                                         *)
(* Strings are sequences of one-character strings, so that suffix tests,   *)
(* case folding, stripping and concatenation are computed as Python does.  *)
(***************************************************************************)
EXTENDS Integers, Sequences, FiniteSets, TLC

(***************************************************************************)
(* Characters and strings                                                  *)
(***************************************************************************)

\* Code points of the characters the model uses (Python compares str by them).
CodePoint ==
  [c \in {"\t", " ", "&", ".", "0", "1", "2", "3", "4", "5", "6", "7", ";",
          "<", "A", "B", "E", "G", "J", "O", "P", "S", "T", "X", "Y", "_",
          "a", "b", "c", "d", "e", "g", "h", "i", "j", "l", "m", "n", "o",
          "p", "r", "s", "t", "u", "x", "y"} |->
     CASE c = "\t" -> 9   [] c = " " -> 32  [] c = "&" -> 38  [] c = "." -> 46
       [] c = "0" -> 48   [] c = "1" -> 49  [] c = "2" -> 50  [] c = "3" -> 51
       [] c = "4" -> 52   [] c = "5" -> 53  [] c = "6" -> 54  [] c = "7" -> 55
       [] c = ";" -> 59   [] c = "<" -> 60
       [] c = "A" -> 65   [] c = "B" -> 66  [] c = "E" -> 69  [] c = "G" -> 71
       [] c = "J" -> 74   [] c = "O" -> 79  [] c = "P" -> 80  [] c = "S" -> 83
       [] c = "T" -> 84   [] c = "X" -> 88  [] c = "Y" -> 89  [] c = "_" -> 95
       [] c = "a" -> 97   [] c = "b" -> 98  [] c = "c" -> 99  [] c = "d" -> 100
       [] c = "e" -> 101  [] c = "g" -> 103 [] c = "h" -> 104 [] c = "i" -> 105
       [] c = "j" -> 106  [] c = "l" -> 108 [] c = "m" -> 109 [] c = "n" -> 110
       [] c = "o" -> 111  [] c = "p" -> 112 [] c = "r" -> 114 [] c = "s" -> 115
       [] c = "t" -> 116  [] c = "u" -> 117 [] c = "x" -> 120 [] c = "y" -> 121]

Chars == DOMAIN CodePoint

\* str.lower() on one character: A..Z are 32 below a..z.
LowerChar(c) ==
  IF CodePoint[c] >= 65 /\ CodePoint[c] <= 90
    THEN CHOOSE d \in Chars : CodePoint[d] = CodePoint[c] + 32
    ELSE c

\* str.lower()
Lower(s) == [i \in 1..Len(s) |-> LowerChar(s[i])]

\* str.endswith(suffix)
EndsWith(s, suffix) ==
  /\ Len(s) >= Len(suffix)
  /\ SubSeq(s, Len(s) - Len(suffix) + 1, Len(s)) = suffix

\* str.startswith(prefix)
StartsWith(s, pre) ==
  /\ Len(s) >= Len(pre)
  /\ SubSeq(s, 1, Len(pre)) = pre

\* str.isdigit() on one character
IsDigit(c) == CodePoint[c] >= 48 /\ CodePoint[c] <= 57

\* Python's str "<" : lexicographic by code point, a proper prefix is smaller.
RECURSIVE StrLess(_, _)
StrLess(a, b) ==
  IF b = <<>> THEN FALSE
  ELSE IF a = <<>> THEN TRUE
  ELSE IF a[1] # b[1] THEN CodePoint[a[1]] < CodePoint[b[1]]
  ELSE StrLess(Tail(a), Tail(b))

\* sorted(keys): the keys in increasing order.
RECURSIVE Sorted(_)
Sorted(S) ==
  IF S = {} THEN <<>>
  ELSE LET m == CHOOSE x \in S : \A y \in S \ {x} : StrLess(x, y)
       IN  <<m>> \o Sorted(S \ {m})

\* os.path.splitext: split at the last dot unless only dots precede it.
splitext(p) ==
  LET dots == {i \in 1..Len(p) : p[i] = "."}
  IN  IF dots = {} THEN <<p, <<>> >>
      ELSE LET d == CHOOSE i \in dots : \A j \in dots : j <= i
           IN  IF \E k \in 1..(d - 1) : p[k] # "."
                 THEN <<SubSeq(p, 1, d - 1), SubSeq(p, d, Len(p))>>
                 ELSE <<p, <<>> >>

JPG  == <<".", "j", "p", "g">>
HTML == <<".", "h", "t", "m", "l">>
JS   == <<".", "j", "s">>
PY   == <<".", "p", "y">>
BAT  == <<".", "b", "a", "t">>

(***************************************************************************)
(* find_cube_sets                                                          *)
(***************************************************************************)

\* int(last) for last in "123456"
FaceIndex(c) == CodePoint[c] - 48

\* the dict with no keys
EmptyDict == [x \in {} |-> x]

\* d[k] = v
DictSet(d, k, v) == [x \in DOMAIN d \cup {k} |-> IF x = k THEN v ELSE d[x]]

\* One iteration of the loop over os.listdir: sets after looking at fname.
ScanEntry(sets, fname) ==
  IF ~EndsWith(Lower(fname), JPG) THEN sets
  ELSE
    LET stem == splitext(fname)[1] IN
    IF stem = <<>> THEN sets
    ELSE
      LET last == stem[Len(stem)] IN
      IF last \notin {"1", "2", "3", "4", "5", "6"} THEN sets
      ELSE
        LET face_idx == FaceIndex(last)
            base     == SubSeq(stem, 1, Len(stem) - 1)
        IN  IF base = <<>> THEN sets
            ELSE DictSet(sets, base,
                   DictSet(IF base \in DOMAIN sets THEN sets[base] ELSE EmptyDict,
                           face_idx, fname))

\* A mutated completeness test that also accepts five faces.
CompleteSetsFiveOrMore(sets) ==
  [b \in {x \in DOMAIN sets : Cardinality(DOMAIN sets[x]) >= 5} |-> sets[b]]

\* complete_sets = {b: f for b, f in sets.items() if len(f) == 6}
CompleteSets(sets) ==
  [b \in {x \in DOMAIN sets : Cardinality(DOMAIN sets[x]) = 6} |-> sets[b]]

\* The whole loop over a listing given in os.listdir order.
RECURSIVE ScanListing(_, _)
ScanListing(sets, names) ==
  IF names = <<>> THEN sets
  ELSE ScanListing(ScanEntry(sets, Head(names)), Tail(names))

find_cube_sets(names) == CompleteSets(ScanListing(EmptyDict, names))

(***************************************************************************)
(* maybe_downscale_cube_faces                                              *)
(***************************************************************************)

\* max_dim=30000, the default of maybe_downscale_cube_faces
MaxDim == 30000

\* Orientation labels in the order load_cube_faces reads them, with the face
\* index each one is read from.
Labels == <<"R", "L", "U", "D", "F", "B">>
LabelIndex == <<3, 1, 5, 6, 4, 2>>

Max2(a, b) == IF a >= b THEN a ELSE b

\* max_side = max over the faces of h and w; a face is <<h, w>> (img.shape[:2]).
MaxSide(cube) ==
  LET sides == {0} \cup {cube[k][1] : k \in DOMAIN cube}
                   \cup {cube[k][2] : k \in DOMAIN cube}
  IN  CHOOSE m \in sides : \A x \in sides : x <= m

\* The sides whose exact product x * max_dim / max_side is an integer.  Only
\* there can the double product x * scale fall just below the integer, so that
\* int() truncates to one less (33127 * (30000.0 / 33127) is 29999.999...).
ExactSides(cube) ==
  LET m == MaxSide(cube)
  IN  {x \in {cube[k][1] : k \in DOMAIN cube} \cup {cube[k][2] : k \in DOMAIN cube} :
         (x * MaxDim) % m = 0}

\* int(x * scale) with scale = float(max_dim) / float(max_side); low is the set
\* of sides whose double product falls below the exact integer.
IntScaled(x, max_side, low) ==
  LET q == (x * MaxDim) \div max_side
  IN  IF x \in low /\ (x * MaxDim) % max_side = 0 THEN q - 1 ELSE q

\* A faulty resize that forgets the lower limit of one pixel.
NewSideNoFloor(x, max_side, low) == IntScaled(x, max_side, low)

\* new_w = max(1, int(w * scale))
NewSide(x, max_side, low) == Max2(1, IntScaled(x, max_side, low))

\* The cube returned for a cube of six loaded faces.
maybe_downscale_cube_faces(cube, low) ==
  LET max_side == MaxSide(cube)
  IN  IF max_side <= MaxDim THEN cube
      ELSE [k \in DOMAIN cube |->
              <<NewSide(cube[k][1], max_side, low),
                NewSide(cube[k][2], max_side, low)>>]

(***************************************************************************)
(* Titles and file names                                                   *)
(***************************************************************************)

\* The characters \s and str.strip() treat as whitespace (those the model uses).
Whitespace == {" ", "\t"}

\* html.unescape, for the entities &lt; and &amp;
RECURSIVE unescape(_)
unescape(s) ==
  IF s = <<>> THEN <<>>
  ELSE IF StartsWith(s, <<"&", "l", "t", ";">>)
    THEN <<"<">> \o unescape(SubSeq(s, 5, Len(s)))
  ELSE IF StartsWith(s, <<"&", "a", "m", "p", ";">>)
    THEN <<"&">> \o unescape(SubSeq(s, 6, Len(s)))
  ELSE <<Head(s)>> \o unescape(Tail(s))

\* re.sub(r"\s+", " ", s): every run of whitespace becomes one space.
RECURSIVE CollapseWhitespace(_)
CollapseWhitespace(s) ==
  IF s = <<>> THEN <<>>
  ELSE IF Head(s) \in Whitespace
    THEN IF Len(s) >= 2 /\ s[2] \in Whitespace
           THEN CollapseWhitespace(Tail(s))
           ELSE <<" ">> \o CollapseWhitespace(Tail(s))
  ELSE <<Head(s)>> \o CollapseWhitespace(Tail(s))

\* str.lstrip(chars)
RECURSIVE LStrip(_, _)
LStrip(s, chars) ==
  IF s # <<>> /\ Head(s) \in chars THEN LStrip(Tail(s), chars) ELSE s

\* str.rstrip(chars)
RECURSIVE RStrip(_, _)
RStrip(s, chars) ==
  IF s # <<>> /\ s[Len(s)] \in chars
    THEN RStrip(SubSeq(s, 1, Len(s) - 1), chars)
    ELSE s

\* str.strip()
Strip(s) == RStrip(LStrip(s, Whitespace), Whitespace)

\* The value None of extract_title_from_content is the empty string here: the
\* function never returns an empty title ("return title or None").
None == <<>>

\* content is the text between the first <h1 ...> and </h1> (hasH1 says whether
\* the pattern matches at all).
extract_title_from_content(hasH1, inner) ==
  IF ~hasH1 THEN None
  ELSE Strip(CollapseWhitespace(unescape(inner)))

\* os.path.isfile(os.path.join(base_dir, name))
IsFile(dir, name) == name \in DOMAIN dir /\ dir[name].kind = "file"

\* The title found in base + ext, or None (no such file, read error, no title).
TitleFromFile(dir, name) ==
  IF ~IsFile(dir, name) THEN None
  ELSE IF ~dir[name].readable THEN None
  ELSE extract_title_from_content(dir[name].hasH1, dir[name].h1)

get_scene_title(dir, base) ==
  IF TitleFromFile(dir, base \o HTML) # None THEN TitleFromFile(dir, base \o HTML)
  ELSE IF TitleFromFile(dir, base \o JS) # None THEN TitleFromFile(dir, base \o JS)
  ELSE IF StartsWith(Lower(base), <<"s", "c", "e", "n", "e">>) /\ IsDigit(base[Len(base)])
    THEN <<"S", "c", "e", "n", "e", " ", base[Len(base)]>>
  ELSE IF StartsWith(Lower(base), <<"e", "d", "i", "t">>)
    THEN <<"E", "d", "i", "t">>
  ELSE base

Disallowed == {"<", ">", ":", "\"", "/", "\\", "|", "?", "*"}

PANORAMA == <<"p", "a", "n", "o", "r", "a", "m", "a">>

sanitize_title_for_filename(title) ==
  LET replaced == [i \in 1..Len(title) |->
                     IF title[i] \in Disallowed THEN "_" ELSE title[i]]
      safe     == RStrip(Strip(replaced), {".", " "})
  IN  IF safe = <<>> THEN PANORAMA ELSE safe


(***************************************************************************)
(* State                                                                   *)
(***************************************************************************)

VARIABLES
  \* one run of main
  pc,                 \* position in main
  listing,            \* the names of base_dir in the order os.listdir gives them
  dir,                \* base_dir: name -> file (kind, locked, image, content)
  width,              \* args.width
  prefix,             \* args.prefix
  w, h,               \* panorama size after clamping
  cube_sets,          \* find_cube_sets(base_dir)
  queue,              \* the bases the for loop has still to visit
  base,               \* the base of the current iteration
  base_related_files, \* files protected if the current iteration fails
  out_name,           \* the output file name of the current iteration
  keep_files,         \* KeepSet
  attempted,          \* history: the bases visited, in order
  result,             \* history: base -> "ok" | "failed"
  outputs,            \* history: base -> the out_name a successful set wrote
  c2e_calls,          \* history: the <<w, h>> passed to py360convert.c2e
  overwritten,        \* history: <<base, name>>, base's output replaced name
  cleanups,           \* history: the number of calls of final_cleanup
  todo,               \* final_cleanup: the names of os.listdir still to visit
  dir_before,         \* history: base_dir when final_cleanup started
  remove_calls,       \* history: the names os.remove was called on
  \* find_cube_sets over an arbitrary listing
  f_pc, f_seen, f_sets, f_result,
  \* sanitize_title_for_filename applied once and twice
  s_pc, title, once, twice,
  \* load_cube_faces with maybe_downscale_cube_faces
  g_pc, cube, loaded

mainVars == <<pc, listing, dir, width, prefix, w, h, cube_sets, queue, base,
              base_related_files, out_name, keep_files, attempted, result,
              outputs, c2e_calls, overwritten, cleanups, todo, dir_before,
              remove_calls>>
findVars  == <<f_pc, f_seen, f_sets, f_result>>
sanVars   == <<s_pc, title, once, twice>>
guardVars == <<g_pc, cube, loaded>>
vars == <<mainVars, findVars, sanVars, guardVars>>
notMain  == <<findVars, sanVars, guardVars>>
notFind  == <<mainVars, sanVars, guardVars>>
notSan   == <<mainVars, findVars, guardVars>>
notGuard == <<mainVars, findVars, sanVars>>

(***************************************************************************)
(* Directories main is run on                                              *)
(***************************************************************************)

File(name) ==
  [name |-> name, kind |-> "file", locked |-> FALSE, image |-> "ok",
   readable |-> TRUE, hasH1 |-> FALSE, h1 |-> <<>>]

\* an image cv2.imread cannot decode
BadImage(name) == [File(name) EXCEPT !.image = "bad"]
\* a file that is not an image
Other(name) == [File(name) EXCEPT !.image = "bad"]
\* a file os.remove fails on
Locked(name) == [Other(name) EXCEPT !.locked = TRUE]
\* a metadata file whose first heading contains inner
Meta(name, inner) == [Other(name) EXCEPT !.hasH1 = TRUE, !.h1 = inner]
\* a metadata file open() fails on
Unreadable(name) == [Other(name) EXCEPT !.readable = FALSE]
\* a subdirectory
Directory(name) == [Other(name) EXCEPT !.kind = "dir", !.readable = FALSE]

Digit == <<"1", "2", "3", "4", "5", "6">>
FaceName(b, i) == b \o <<Digit[i]>> \o JPG
Faces(b) == [i \in 1..6 |-> File(FaceName(b, i))]
\* the six faces of b, face i replaced by entry e
FacesWith(b, i, e) == [Faces(b) EXCEPT ![i] = e]

X      == <<"X">>
X1     == <<"X", "1">>
Y      == <<"Y">>
Edit0  == <<"E", "d", "i", "t", "0">>
Edit1  == <<"E", "d", "i", "t", "1">>
Scene2 == <<"S", "c", "e", "n", "e", "2">>

Extras ==
  << File(<<"r", "u", "n", ".", "p", "y">>),
     Locked(<<"a", ".", "t", "x", "t">>),
     Other(<<"G", "O", ".", "B", "A", "T">>),
     Directory(<<"s", "o", "t">>),
     Other(<<"n", ".", "t", "x", "t">>),
     Locked(<<"y", ".", "t", "x", "t">>) >>

Listings ==
  { \* no complete set
    SubSeq(Faces(X), 1, 5) \o Extras,
    \* one set and unrelated files
    Faces(X) \o Extras,
    \* the faces of X1 are X11.jpg .. X16.jpg, the first face of X is X1.jpg
    Faces(X) \o Faces(X1),
    FacesWith(X, 4, BadImage(FaceName(X, 4))) \o Faces(X1),
    \* two sets the heuristics give the same title
    Faces(Edit0) \o Faces(Edit1),
    \* a face index supplied by two files, in both listing orders
    Faces(X) \o <<File(<<"X", "1", ".", "J", "P", "G">>)>>,
    <<File(<<"X", "1", ".", "J", "P", "G">>)>> \o Faces(X),
    \* a title from the metadata of X that names a face of Y
    Faces(X) \o <<Meta(X \o HTML, <<"Y", "3">>)>> \o Faces(Y),
    \* unreadable .html, title from .js, and a Scene base
    Faces(X) \o <<Unreadable(X \o HTML),
                  Meta(X \o JS, <<" ", "a", "&", "l", "t", ";", "b", "\t", " ", ".">>)>>
             \o Faces(Scene2),
    \* a failing set with metadata
    FacesWith(X, 2, BadImage(FaceName(X, 2)))
       \o <<Meta(X \o HTML, <<"a">>), Other(X \o JS)>> \o Extras,
    \* a face name that is a directory
    FacesWith(X, 6, Directory(FaceName(X, 6))) \o <<Other(X \o JS)>>,
    \* the output name is a directory
    Faces(X) \o <<Directory(X \o JPG)>> }

Widths == {-3, 4097, 31999, 40000}

Prefixes == {<<>>, <<"p", "_">>}

Names(entries) == [i \in 1..Len(entries) |-> entries[i].name]

DirOf(entries) ==
  [n \in {entries[i].name : i \in 1..Len(entries)} |->
     LET e == CHOOSE x \in {entries[i] : i \in 1..Len(entries)} : x.name = n
     IN  [kind |-> e.kind, locked |-> e.locked, image |-> e.image,
          readable |-> e.readable, hasH1 |-> e.hasH1, h1 |-> e.h1]]


(***************************************************************************)
(* main                                                                    *)
(***************************************************************************)

NoBase == <<>>

InitMain ==
  /\ pc = "args"
  /\ \E entries \in Listings :
       /\ listing = Names(entries)
       /\ dir = DirOf(entries)
  /\ width \in Widths
  /\ prefix \in Prefixes
  /\ w = 0 /\ h = 0
  /\ cube_sets = EmptyDict
  /\ queue = <<>>
  /\ base = NoBase
  /\ base_related_files = {}
  /\ out_name = <<>>
  /\ keep_files = {}
  /\ attempted = <<>>
  /\ result = EmptyDict
  /\ outputs = EmptyDict
  /\ c2e_calls = {}
  /\ overwritten = {}
  /\ cleanups = 0
  /\ todo = <<>>
  /\ dir_before = EmptyDict
  /\ remove_calls = {}

\* main never starts
IdleMain ==
  /\ pc = "idle"
  /\ listing = <<>> /\ dir = EmptyDict /\ width = 0 /\ prefix = <<>>
  /\ w = 0 /\ h = 0 /\ cube_sets = EmptyDict /\ queue = <<>> /\ base = NoBase
  /\ base_related_files = {} /\ out_name = <<>> /\ keep_files = {}
  /\ attempted = <<>> /\ result = EmptyDict /\ outputs = EmptyDict
  /\ c2e_calls = {} /\ overwritten = {} /\ cleanups = 0 /\ todo = <<>>
  /\ dir_before = EmptyDict /\ remove_calls = {}

\* A run that passes the requested width on as it is.
ClampWidthMissing(x) == x

\* if w >= 32000: w = 32000
ClampWidth(x) == IF x >= 32000 THEN 32000 ELSE x

\* w = args.width, clamped; h = w // 2
ParseArgs ==
  /\ pc = "args"
  /\ w' = ClampWidth(width)
  /\ h' = ClampWidth(width) \div 2
  /\ pc' = "discover"
  /\ UNCHANGED <<listing, dir, width, prefix, cube_sets, queue, base,
                 base_related_files, out_name, keep_files, attempted, result,
                 outputs, c2e_calls, overwritten, cleanups, todo, dir_before,
                 remove_calls>>
  /\ UNCHANGED notMain

\* A run that goes on to the loop and the cleanup with no set at all.
DiscoverNoEarlyReturn ==
  /\ pc = "discover"
  /\ cube_sets' = find_cube_sets(listing)
  /\ queue' = Sorted(DOMAIN find_cube_sets(listing))
  /\ keep_files' = {}
  /\ pc' = "loop"
  /\ UNCHANGED <<listing, dir, width, prefix, w, h, base, base_related_files,
                 out_name, attempted, result, outputs, c2e_calls, overwritten,
                 cleanups, todo, dir_before, remove_calls>>
  /\ UNCHANGED notMain

\* cube_sets = find_cube_sets(base_dir); return if there is none; the for loop
\* visits sorted(cube_sets.items()).
Discover ==
  /\ pc = "discover"
  /\ cube_sets' = find_cube_sets(listing)
  /\ IF DOMAIN find_cube_sets(listing) = {}
       THEN pc' = "done" /\ queue' = <<>>
       ELSE pc' = "loop" /\ queue' = Sorted(DOMAIN find_cube_sets(listing))
  /\ keep_files' = {}
  /\ UNCHANGED <<listing, dir, width, prefix, w, h, base, base_related_files,
                 out_name, attempted, result, outputs, c2e_calls, overwritten,
                 cleanups, todo, dir_before, remove_calls>>
  /\ UNCHANGED notMain

\* base_related_files of the loop body: the six faces and the metadata files
\* that exist.
RelatedFiles(d, b, faces_dict) ==
  {faces_dict[i] : i \in DOMAIN faces_dict}
    \cup {n \in {b \o HTML, b \o JS} : IsFile(d, n)}

\* The next iteration of the for loop starts.
BeginSet ==
  /\ pc = "loop"
  /\ queue # <<>>
  /\ base' = Head(queue)
  /\ queue' = Tail(queue)
  /\ attempted' = Append(attempted, Head(queue))
  /\ base_related_files' = RelatedFiles(dir, Head(queue), cube_sets[Head(queue)])
  /\ pc' = "title"
  /\ UNCHANGED <<listing, dir, width, prefix, w, h, cube_sets, out_name,
                 keep_files, result, outputs, c2e_calls, overwritten, cleanups,
                 todo, dir_before, remove_calls>>
  /\ UNCHANGED notMain

\* out_name = f"{prefix}{safe_title}.jpg"
OutName(d, pre, b) ==
  pre \o sanitize_title_for_filename(get_scene_title(d, b)) \o JPG

ResolveName ==
  /\ pc = "title"
  /\ out_name' = OutName(dir, prefix, base)
  /\ pc' = "load"
  /\ UNCHANGED <<listing, dir, width, prefix, w, h, cube_sets, queue, base,
                 base_related_files, keep_files, attempted, result, outputs,
                 c2e_calls, overwritten, cleanups, todo, dir_before,
                 remove_calls>>
  /\ UNCHANGED notMain

\* cv2.imread returns an image
Readable(d, name) ==
  name \in DOMAIN d /\ d[name].kind = "file" /\ d[name].image = "ok"

\* load_cube_faces: FileNotFoundError if one of the six faces cannot be read.
LoadFaces ==
  /\ pc = "load"
  /\ IF \A k \in 1..6 : Readable(dir, cube_sets[base][LabelIndex[k]])
       THEN pc' = "project"
       ELSE pc' = "except"
  /\ UNCHANGED <<listing, dir, width, prefix, w, h, cube_sets, queue, base,
                 base_related_files, out_name, keep_files, attempted, result,
                 outputs, c2e_calls, overwritten, cleanups, todo, dir_before,
                 remove_calls>>
  /\ UNCHANGED notMain

\* py360convert.c2e(cubemap=cube, h=h, w=w): returns a panorama or raises.
Project ==
  /\ pc = "project"
  /\ c2e_calls' = c2e_calls \cup {<<w, h>>}
  /\ \E raised \in BOOLEAN : pc' = IF raised THEN "except" ELSE "write"
  /\ UNCHANGED <<listing, dir, width, prefix, w, h, cube_sets, queue, base,
                 base_related_files, out_name, keep_files, attempted, result,
                 outputs, overwritten, cleanups, todo, dir_before, remove_calls>>
  /\ UNCHANGED notMain

\* base_dir after cv2.imwrite wrote image data (complete or not) to name
Written(d, name, image) ==
  [n \in DOMAIN d \cup {name} |->
     IF n = name
       THEN [kind |-> "file",
             locked |-> IF name \in DOMAIN d THEN d[name].locked ELSE FALSE,
             image |-> image, readable |-> TRUE, hasH1 |-> FALSE, h1 |-> <<>>]
       ELSE d[n]]

\* cv2.imwrite succeeds: the output is kept and the iteration ends.
WriteOk ==
  /\ pc = "write"
  /\ ~(out_name \in DOMAIN dir /\ dir[out_name].kind = "dir")
  /\ dir' = Written(dir, out_name, "ok")
  /\ overwritten' = IF out_name \in DOMAIN dir
                      THEN overwritten \cup {<<base, out_name>>}
                      ELSE overwritten
  /\ keep_files' = keep_files \cup {out_name}
  /\ result' = DictSet(result, base, "ok")
  /\ outputs' = DictSet(outputs, base, out_name)
  /\ pc' = "loop"
  /\ UNCHANGED <<listing, width, prefix, w, h, cube_sets, queue, base,
                 base_related_files, out_name, attempted, c2e_calls, cleanups,
                 todo, dir_before, remove_calls>>
  /\ UNCHANGED notMain

\* cv2.imwrite returns False or raises; the file is untouched, or (partial)
\* it is left with incomplete image data.
WriteFails ==
  /\ pc = "write"
  /\ \E partial \in BOOLEAN :
       IF partial /\ ~(out_name \in DOMAIN dir /\ dir[out_name].kind = "dir")
         THEN /\ dir' = Written(dir, out_name, "bad")
              /\ overwritten' = IF out_name \in DOMAIN dir
                                  THEN overwritten \cup {<<base, out_name>>}
                                  ELSE overwritten
         ELSE UNCHANGED <<dir, overwritten>>
  /\ pc' = "except"
  /\ UNCHANGED <<listing, width, prefix, w, h, cube_sets, queue, base,
                 base_related_files, out_name, keep_files, attempted, result,
                 outputs, c2e_calls, cleanups, todo, dir_before, remove_calls>>
  /\ UNCHANGED notMain

\* An except clause that reports the error and protects nothing.
ExceptKeepsNothing ==
  /\ pc = "except"
  /\ result' = DictSet(result, base, "failed")
  /\ pc' = "loop"
  /\ UNCHANGED <<listing, dir, width, prefix, w, h, cube_sets, queue, base,
                 base_related_files, out_name, keep_files, attempted, outputs,
                 c2e_calls, overwritten, cleanups, todo, dir_before,
                 remove_calls>>
  /\ UNCHANGED notMain

\* An except clause that lets the error end the loop.
ExceptEndsLoop ==
  /\ pc = "except"
  /\ keep_files' = keep_files \cup base_related_files
  /\ result' = DictSet(result, base, "failed")
  /\ queue' = <<>>
  /\ pc' = "loop"
  /\ UNCHANGED <<listing, dir, width, prefix, w, h, cube_sets, base,
                 base_related_files, out_name, attempted, outputs, c2e_calls,
                 overwritten, cleanups, todo, dir_before, remove_calls>>
  /\ UNCHANGED notMain

\* except Exception: keep_files.update(base_related_files)
Except ==
  /\ pc = "except"
  /\ keep_files' = keep_files \cup base_related_files
  /\ result' = DictSet(result, base, "failed")
  /\ pc' = "loop"
  /\ UNCHANGED <<listing, dir, width, prefix, w, h, cube_sets, queue, base,
                 base_related_files, out_name, attempted, outputs, c2e_calls,
                 overwritten, cleanups, todo, dir_before, remove_calls>>
  /\ UNCHANGED notMain


(***************************************************************************)
(* final_cleanup                                                           *)
(***************************************************************************)

Reverse(q) == [i \in 1..Len(q) |-> q[Len(q) + 1 - i]]

\* The loop is over: final_cleanup is called and lists the directory.  The
\* order of os.listdir is arbitrary; two opposite orders are explored.
StartCleanup ==
  /\ pc = "loop"
  /\ queue = <<>>
  /\ cleanups' = cleanups + 1
  /\ dir_before' = dir
  /\ \E backwards \in BOOLEAN :
       todo' = IF backwards THEN Reverse(Sorted(DOMAIN dir)) ELSE Sorted(DOMAIN dir)
  /\ pc' = "cleanup"
  /\ UNCHANGED <<listing, dir, width, prefix, w, h, cube_sets, base,
                 base_related_files, out_name, keep_files, attempted, result,
                 outputs, c2e_calls, overwritten, queue, remove_calls>>
  /\ UNCHANGED notMain

\* A test of the extension that forgets fname.lower().
WantsRemovalCaseSensitive(d, keep, fname) ==
  /\ IsFile(d, fname)
  /\ fname \notin keep
  /\ ~(EndsWith(fname, PY) \/ EndsWith(fname, BAT))

\* The three "continue" tests of the loop body all fail: os.remove is called.
WantsRemoval(d, keep, fname) ==
  /\ IsFile(d, fname)
  /\ fname \notin keep
  /\ ~(EndsWith(Lower(fname), PY) \/ EndsWith(Lower(fname), BAT))

\* base_dir without name
Removed(d, name) == [n \in DOMAIN d \ {name} |-> d[n]]

\* One iteration of the loop of final_cleanup; os.remove raises on a locked
\* file, which is reported and the loop goes on.
CleanupEntry ==
  /\ pc = "cleanup"
  /\ todo # <<>>
  /\ LET fname == Head(todo) IN
       IF WantsRemoval(dir, keep_files, fname)
         THEN /\ remove_calls' = remove_calls \cup {fname}
              /\ dir' = IF dir[fname].locked THEN dir ELSE Removed(dir, fname)
         ELSE UNCHANGED <<dir, remove_calls>>
  /\ todo' = Tail(todo)
  /\ UNCHANGED <<pc, listing, width, prefix, w, h, cube_sets, queue, base,
                 base_related_files, out_name, keep_files, attempted, result,
                 outputs, c2e_calls, overwritten, cleanups, dir_before>>
  /\ UNCHANGED notMain

\* final_cleanup returns and main ends.
FinishCleanup ==
  /\ pc = "cleanup"
  /\ todo = <<>>
  /\ pc' = "done"
  /\ UNCHANGED <<listing, dir, width, prefix, w, h, cube_sets, queue, base,
                 base_related_files, out_name, keep_files, attempted, result,
                 outputs, c2e_calls, overwritten, cleanups, todo, dir_before,
                 remove_calls>>
  /\ UNCHANGED notMain

MainStep ==
  \/ ParseArgs
  \/ Discover
  \/ BeginSet
  \/ ResolveName
  \/ LoadFaces
  \/ Project
  \/ WriteOk
  \/ WriteFails
  \/ Except
  \/ StartCleanup
  \/ CleanupEntry
  \/ FinishCleanup

(***************************************************************************)
(* find_cube_sets on arbitrary listings                                    *)
(***************************************************************************)

\* The largest number of directory entries listed.
MaxEntries == 8

\* The names a listing is drawn from.
Pool ==
  {FaceName(X, i) : i \in 1..6}
    \cup { <<"X", "1", ".", "J", "P", "G">>,
           <<"X", "7", ".", "j", "p", "g">>,
           <<"1", ".", "j", "p", "g">>,
           <<"X", "3", ".", "t", "x", "t">>,
           <<"X", "4">>,
           <<"Y", "1", ".", "j", "p", "g">> }

InitFind ==
  /\ f_pc = "scan"
  /\ f_seen = {}
  /\ f_sets = EmptyDict
  /\ f_result = EmptyDict

IdleFind ==
  /\ f_pc = "idle"
  /\ f_seen = {}
  /\ f_sets = EmptyDict
  /\ f_result = EmptyDict

\* os.listdir yields one more name and the loop body looks at it.
FindEntry ==
  /\ f_pc = "scan"
  /\ Cardinality(f_seen) < MaxEntries
  /\ \E fname \in Pool \ f_seen :
       /\ f_seen' = f_seen \cup {fname}
       /\ f_sets' = ScanEntry(f_sets, fname)
  /\ UNCHANGED <<f_pc, f_result>>
  /\ UNCHANGED notFind

\* The listing is exhausted: the complete sets are returned.
FindReturn ==
  /\ f_pc = "scan"
  /\ f_result' = CompleteSets(f_sets)
  /\ f_pc' = "done"
  /\ UNCHANGED <<f_seen, f_sets>>
  /\ UNCHANGED notFind

FindStep == FindEntry \/ FindReturn

(***************************************************************************)
(* sanitize_title_for_filename on arbitrary titles                         *)
(***************************************************************************)

\* The longest title.
MaxTitleLen == 3

TitleChars == {"a", " ", "\t", ".", "<"}

RECURSIVE Strings(_, _)
Strings(chars, n) ==
  IF n = 0 THEN {<<>>}
  ELSE Strings(chars, n - 1)
         \cup {Append(t, c) : t \in Strings(chars, n - 1), c \in chars}

InitSan ==
  /\ s_pc = "title"
  /\ title \in Strings(TitleChars, MaxTitleLen)
  /\ once = <<>>
  /\ twice = <<>>

IdleSan ==
  /\ s_pc = "idle"
  /\ title = <<>>
  /\ once = <<>>
  /\ twice = <<>>

SanitizeOnce ==
  /\ s_pc = "title"
  /\ once' = sanitize_title_for_filename(title)
  /\ s_pc' = "once"
  /\ UNCHANGED <<title, twice>>
  /\ UNCHANGED notSan

SanitizeTwice ==
  /\ s_pc = "once"
  /\ twice' = sanitize_title_for_filename(once)
  /\ s_pc' = "twice"
  /\ UNCHANGED <<title, once>>
  /\ UNCHANGED notSan

SanStep == SanitizeOnce \/ SanitizeTwice

(***************************************************************************)
(* load_cube_faces and the size guard on arbitrary face sizes              *)
(***************************************************************************)

\* The <<h, w>> of the face images read.
Shapes == {<<200, 100>>, <<30000, 20000>>, <<1, 60000>>, <<33127, 33127>>}

InitGuard ==
  /\ g_pc = "read"
  /\ cube = EmptyDict
  /\ loaded = EmptyDict

IdleGuard ==
  /\ g_pc = "idle"
  /\ cube = EmptyDict
  /\ loaded = EmptyDict

\* cube[label] = read(faces_dict[index]), in the order of the dict display
ReadFace ==
  /\ g_pc = "read"
  /\ Cardinality(DOMAIN cube) < 6
  /\ \E shape \in Shapes :
       cube' = DictSet(cube, Labels[Cardinality(DOMAIN cube) + 1], shape)
  /\ UNCHANGED <<g_pc, loaded>>
  /\ UNCHANGED notGuard

\* cube = maybe_downscale_cube_faces(cube)
Downscale ==
  /\ g_pc = "read"
  /\ Cardinality(DOMAIN cube) = 6
  /\ loaded' = cube
  /\ \E low \in SUBSET ExactSides(cube) :
       cube' = maybe_downscale_cube_faces(cube, low)
  /\ g_pc' = "done"
  /\ UNCHANGED notGuard

GuardStep == ReadFace \/ Downscale

(***************************************************************************)
(* Specifications                                                          *)
(***************************************************************************)

Init == InitMain /\ IdleFind /\ IdleSan /\ IdleGuard
Next == MainStep
Spec == Init /\ [][Next]_vars

FindInit == IdleMain /\ InitFind /\ IdleSan /\ IdleGuard
FindNext == FindStep
FindSpec == FindInit /\ [][FindNext]_vars

SanInit == IdleMain /\ IdleFind /\ InitSan /\ IdleGuard
SanNext == SanStep
SanSpec == SanInit /\ [][SanNext]_vars

GuardInit == IdleMain /\ IdleFind /\ IdleSan /\ InitGuard
GuardNext == GuardStep
GuardSpec == GuardInit /\ [][GuardNext]_vars


(***************************************************************************)
(* Properties                                                              *)
(***************************************************************************)

Range(q) == {q[i] : i \in 1..Len(q)}

Failed(b) == b \in DOMAIN result /\ result[b] = "failed"

\* The six face files of a discovered set and the metadata files it has.
SourceFiles(d, b) ==
  {cube_sets[b][i] : i \in 1..6} \cup {n \in {b \o HTML, b \o JS} : IsFile(d, n)}

\* C1: while and after Cleanup runs, the six face files and every existing
\* metadata file of each set whose processing failed are in KeepSet and are
\* still in the directory.
C1_FailedSetProtected ==
  pc \in {"cleanup", "done"} /\ cleanups = 1 =>
    \A b \in DOMAIN cube_sets :
      Failed(b) =>
        \A n \in SourceFiles(dir_before, b) : n \in keep_files /\ n \in DOMAIN dir

\* A finished run in which a set with a metadata file failed and Cleanup
\* removed other files.
C1_Witness ==
  /\ pc = "done"
  /\ \E b \in DOMAIN cube_sets : Failed(b) /\ IsFile(dir, b \o HTML)
  /\ remove_calls \ DOMAIN dir # {}

\* C2: when every discovered set is processed successfully, the sets have
\* pairwise distinct output names and as many output files exist after
\* Cleanup as there are sets.
C2_OneOutputPerSet ==
  (pc = "done" /\ DOMAIN cube_sets # {}
     /\ \A b \in DOMAIN cube_sets : b \in DOMAIN result /\ result[b] = "ok") =>
    /\ \A a, b \in DOMAIN cube_sets : a # b => outputs[a] # outputs[b]
    /\ Cardinality({outputs[b] : b \in DOMAIN cube_sets} \cap DOMAIN dir)
         = Cardinality(DOMAIN cube_sets)

\* File n is <b><digit i><extension>, the extension being .jpg in any case.
Supplies(n, b, i) ==
  /\ b # <<>>
  /\ Len(n) = Len(b) + 5
  /\ SubSeq(n, 1, Len(b)) = b
  /\ n[Len(b) + 1] = Digit[i]
  /\ Lower(SubSeq(n, Len(b) + 2, Len(n))) = JPG

Suppliers(b, i) == {n \in f_seen : Supplies(n, b, i)}

CandidateBases == UNION {{SubSeq(n, 1, k) : k \in 1..Len(n)} : n \in Pool}

\* C3 as stated: a returned base has every index 1..6 supplied by exactly one
\* file, so a base with a missing or a duplicated index is absent.
C3_NoDuplicateIndex ==
  f_pc = "done" =>
    \A b \in DOMAIN f_result :
      \A i \in 1..6 : Cardinality(Suppliers(b, i)) = 1

\* C3 amended: the bases returned are exactly those for which every index
\* 1..6 is supplied by at least one file (a base with 1 to 5 indices is
\* absent, a base with a duplicated index is returned), and the file returned
\* for an index is one that supplies it.
C3_SixDistinctIndices ==
  f_pc = "done" =>
    /\ DOMAIN f_result \subseteq CandidateBases
    /\ \A b \in CandidateBases :
         b \in DOMAIN f_result <=> \A i \in 1..6 : Suppliers(b, i) # {}
    /\ \A b \in DOMAIN f_result :
         /\ DOMAIN f_result[b] = 1..6
         /\ \A i \in 1..6 : f_result[b][i] \in Suppliers(b, i)

\* A listing with all six indices of X in which index 1 is supplied twice.
C3_Witness ==
  /\ f_pc = "done"
  /\ X \in DOMAIN f_result
  /\ Cardinality(Suppliers(X, 1)) = 2

\* C4: sanitising a sanitised title changes nothing.
C4_Idempotent == s_pc = "twice" => twice = once

\* C5 as stated: the width passed to the projection is at most 30000 and the
\* height is the width // 2.
C5_WidthAtMost30000 ==
  \A c \in c2e_calls : c[1] <= 30000 /\ c[2] = c[1] \div 2

\* C5 amended: the width passed to the projection is at most 32000 (a request
\* of 32000 or more is clamped to 32000, a smaller one is passed as it is) and
\* the height is the width // 2.
C5_WidthAtMost32000 ==
  \A c \in c2e_calls :
    /\ c[1] <= 32000
    /\ c[1] = (IF width >= 32000 THEN 32000 ELSE width)
    /\ c[2] = c[1] \div 2

\* The projection was called in a run asked for more than the maximum.
C5_Witness == c2e_calls # {} /\ width > 32000

\* No file of the directory main started on is gone, no removal was tried.
NothingDeleted ==
  /\ remove_calls = {}
  /\ Range(listing) \subseteq DOMAIN dir

\* Every discovered set has been attempted and its attempt is over.
AllSetsAttempted ==
  /\ queue = <<>>
  /\ Range(attempted) = DOMAIN cube_sets
  /\ DOMAIN result = DOMAIN cube_sets

\* C6 as stated: every run calls Cleanup exactly once, and only after every
\* set has been attempted.
C6_CleanupExactlyOnce ==
  /\ pc = "done" => cleanups = 1
  /\ cleanups >= 1 => AllSetsAttempted
  /\ ~AllSetsAttempted => NothingDeleted

\* C6 amended: Cleanup runs at most once: exactly once in a run that discovers
\* at least one complete set and not at all in a run that discovers none; it
\* runs only after every discovered set has been attempted, and no file is
\* deleted before.
C6_CleanupOnceIfAnySet ==
  /\ cleanups <= 1
  /\ pc = "done" => cleanups = (IF DOMAIN cube_sets = {} THEN 0 ELSE 1)
  /\ cleanups >= 1 => AllSetsAttempted /\ pc \in {"cleanup", "done"}
  /\ cleanups = 0 => NothingDeleted

\* A finished run over two sets whose Cleanup removed files.
C6_Witness ==
  /\ pc = "done"
  /\ cleanups = 1
  /\ Cardinality(DOMAIN cube_sets) = 2
  /\ remove_calls \ DOMAIN dir # {}

\* The entries the claim says Cleanup deletes.
Deletable(n) ==
  /\ dir_before[n].kind = "file"
  /\ n \notin keep_files
  /\ ~EndsWith(Lower(n), PY)
  /\ ~EndsWith(Lower(n), BAT)

\* C7: after Cleanup, removal was tried on exactly the regular files that are
\* neither in KeepSet nor script/batch files; each of them is gone unless its
\* removal failed, whatever happened to the others; every other entry is still
\* there and unchanged, and nothing was added.
C7_CleanupFrame ==
  pc = "done" /\ cleanups = 1 =>
    /\ DOMAIN dir \subseteq DOMAIN dir_before
    /\ \A n \in DOMAIN dir_before :
         /\ n \in remove_calls <=> Deletable(n)
         /\ n \notin DOMAIN dir <=> (Deletable(n) /\ ~dir_before[n].locked)
         /\ n \in DOMAIN dir => dir[n] = dir_before[n]

\* A finished Cleanup in which one removal failed and another succeeded while
\* a batch file with an upper-case extension and a directory were left alone.
C7_Witness ==
  /\ pc = "done"
  /\ remove_calls \cap DOMAIN dir # {}
  /\ remove_calls \ DOMAIN dir # {}
  /\ \E n \in DOMAIN dir : dir[n].kind = "dir"
  /\ \E n \in DOMAIN dir : EndsWith(n, <<".", "B", "A", "T">>)


\* C8: once the size guard has run on six loaded faces: if no side exceeded
\* the ceiling the shapes are unchanged; otherwise every side is its old
\* length times ceiling/max_side within one pixel (or 1 pixel if that is
\* less), the largest new side is the ceiling or one pixel less, and no side
\* is 0.
C8_SizeGuard ==
  g_pc = "done" =>
    LET m == MaxSide(loaded) IN
    /\ DOMAIN cube = DOMAIN loaded
    /\ m <= MaxDim => cube = loaded
    /\ m > MaxDim =>
         /\ MaxSide(cube) \in {MaxDim - 1, MaxDim}
         /\ \A k \in DOMAIN cube : \A j \in 1..2 :
              /\ cube[k][j] >= 1
              /\ \/ cube[k][j] = 1 /\ loaded[k][j] * MaxDim < 2 * m
                 \/ /\ cube[k][j] * m <= loaded[k][j] * MaxDim
                    /\ (cube[k][j] + 1) * m >= loaded[k][j] * MaxDim

\* A guarded cube that had a side above the ceiling and has a side of 1 pixel
\* that the factor alone would have made 0.
C8_Witness ==
  /\ g_pc = "done"
  /\ MaxSide(loaded) > MaxDim
  /\ \E k \in DOMAIN cube :
       cube[k][1] = 1 /\ loaded[k][1] * MaxDim < MaxSide(loaded)

\* The bases attempted so far are discovered sets in increasing order, each
\* once.
AttemptedInOrder ==
  /\ Range(attempted) \subseteq DOMAIN cube_sets
  /\ \A i, j \in 1..Len(attempted) :
       i < j => StrLess(attempted[i], attempted[j])

\* C9: the sets are attempted one by one in increasing order of base name,
\* none twice; a failure is handled inside the iteration, which hands back to
\* the loop with every later set still to be visited; no discovered set is
\* ever dropped, and a run over at least one set ends only after every set was
\* attempted and Cleanup was called.
C9_FailureDoesNotStopRun ==
  /\ [](AttemptedInOrder)
  /\ [](pc \notin {"args", "discover"} =>
          Range(attempted) \cup Range(queue) = DOMAIN cube_sets)
  /\ []((pc \in {"cleanup", "done"} /\ DOMAIN cube_sets # {}) =>
          (Range(attempted) = DOMAIN cube_sets /\ cleanups = 1))
  /\ [][pc = "except" => (pc' = "loop" /\ queue' = queue)]_vars

\* A finished run in which the first of two sets failed and the second was
\* attempted.
C9_Witness ==
  /\ pc = "done"
  /\ Len(attempted) = 2
  /\ Failed(attempted[1])
  /\ attempted[2] \in DOMAIN result

\* C10: the output of a set never replaces a face image or a metadata file of
\* another discovered set.
C10_NoForeignOverwrite ==
  \A e \in overwritten :
    \A b \in DOMAIN cube_sets \ {e[1]} :
      e[2] \notin {cube_sets[b][i] : i \in 1..6} \cup {b \o HTML, b \o JS}


====
